---- MODULE Spec2Model ----
(***************************************************************************)
(* Snapgram client: the backend wrapper (lib/appwrite/api.ts), the query   *)
(* and mutation hooks (lib/react-query/queriesAndMutations.ts), the        *)
(* Explore page and the pieces of UI state they drive.                     *)
(***************************************************************************)
EXTENDS Integers, Sequences, FiniteSets, TLC

(* ------------------------------ bounds -------------------------------- *)
\* Largest number of posts the backend holds in a run.
MaxPosts == 25
\* Largest number of failed feed requests in a run.
MaxFeedFailures == 1
\* How many steps of the clock make up the debounce window.
TicksPerWindow == 3
\* Longest username typed into the sign-up form, in characters.
MaxNameLen == 2
\* Largest number of accounts created in a run of sign-ups.
MaxAccounts == 1
\* Largest number of posts edited while the feed is being paged.
MaxEdits == 2
\* Longest likes list a post starts with.
MaxLikes == 2
\* Largest number of like requests in flight at once.
MaxPendingLikes == 1
\* Largest number of files ever uploaded to the bucket.
MaxUploads == 2
\* Largest number of saved-post records created in a run.
MaxSaves == 2
\* Longest text typed into the tags field, in characters.
MaxTagsLen == 3

(* ------------------------- program constants -------------------------- *)
\* Query.limit(12) of getInfinitePosts.
PageSize == 12
\* The absent page parameter: undefined on the first request, null when
\* getNextPageParam reports that there is no further page.
NoCursor == 0
\* useDebounce(searchValue, 300): the quiescence window, in milliseconds.
DebounceDelay == 300
\* No file: an upload that did not happen, a post without image id.
NoFile == 0
\* No post: a missing post id.
NoPost == 0
\* The signed-in user, creator of the posts made through this client.
CurrentUserId == 1
\* Another user of the application.
OtherUserId == 2
Users == {CurrentUserId, OtherUserId}

PostIds == 1..MaxPosts
\* What the user may have in the search box.
SearchInputs == {"", "a", "ab"}
\* One step of the clock, in milliseconds.
TickMs == DebounceDelay \div TicksPerWindow

VARIABLES
  posts,          \* ids of the documents in the posts collection
  updatedAt,      \* $updatedAt of every post id
  pages,          \* infinite query data.pages: the pages fetched so far
  pageParams,     \* infinite query data.pageParams: the cursor of every page
  hasNextPage,    \* infinite query result.hasNextPage
  nextCursor,     \* last value returned by getNextPageParam
  feedStatus,     \* "pending" | "success" | "error"
  feedLog,        \* the pageParam of every getInfinitePosts call made
  feedFailures,   \* how many of those calls threw
  searchValue,    \* Explore: the text of the search input
  debouncedSearch,\* Explore: the value useDebounce returns
  sinceChange,    \* milliseconds since the search input last changed
  timerArmed,     \* whether the debounce timeout is pending
  inView,         \* Explore: useInView().inView of the scroll sentinel
  searchFetching, \* the search terms whose query is being fetched
  searchCalled,   \* every term searchPosts was called with
  lastSearchTerm, \* the term of the latest searchPosts call
  callsSinceChange, \* searchPosts calls since the input last changed
  searchResult,   \* how the latest settled searchPosts call ended
  imageOf,        \* imageId of every post document
  storage,        \* ids of the files in the storage bucket
  uploads,        \* how many files were uploaded so far
  created,        \* how many post documents were created so far
  saves,          \* the saves collection: records of id, user and post
  freshKeys,      \* the cached queries that are not stale
  lastOp,         \* the latest mutation: its inputs, calls and outcome
  currentUser,    \* the cached data of useGetCurrentUser: its save list
  shownPost,      \* PostStats: the post prop
  likes,          \* PostStats: the likes state
  isSaved,        \* PostStats: the isSaved state
  likesOf,        \* the likes attribute of the shown post in the backend
  pendingLikes,   \* the likesArray of every likePost request in flight
  savePending,    \* the savePost or deleteSavedPost request in flight
  lastToggle,     \* the latest toggleLike or toggleSave: state and calls
  otherClient,    \* PostStats of another user: its likes state and request
  accounts,       \* the accounts of the auth service, in order of creation
  users,          \* the accounts that have a document in the users collection
  signup,         \* the latest createUserAccount call: input, calls, outcome
  form,           \* PostForm: the values of its fields and its props
  sent,           \* PostForm: what the latest handleSubmit did
  dateShown,      \* PostCard: the creation date it renders, and when
  recentQuery     \* the query of useGetRecentPosts: status, data, error

backendVars == <<posts, updatedAt, imageOf, storage, uploads, created, saves>>
cacheVars == <<freshKeys, lastOp, currentUser>>
statsVars == <<shownPost, likes, isSaved, likesOf, pendingLikes, savePending,
               lastToggle, otherClient>>
exploreVars == <<searchValue, debouncedSearch, sinceChange, timerArmed, inView,
                 searchFetching, searchCalled, lastSearchTerm,
                 callsSinceChange,
                 searchResult>>
feedVars == <<pages, pageParams, hasNextPage, nextCursor, feedStatus,
              feedLog, feedFailures>>
accountVars == <<accounts, users, signup>>
viewVars == <<form, sent, dateShown, recentQuery>>
vars == <<backendVars, feedVars, exploreVars, cacheVars, accountVars,
          statsVars, viewVars>>

(* ------------------------------ helpers ------------------------------- *)
Min(a, b) == IF a < b THEN a ELSE b

LastOf(s) == s[Len(s)]

RECURSIVE Flatten(_)
Flatten(ps) == IF ps = <<>> THEN <<>> ELSE Head(ps) \o Flatten(Tail(ps))

IndexOf(s, x) == CHOOSE i \in 1..Len(s) : s[i] = x

Elems(s) == {s[i] : i \in 1..Len(s)}

(* --------------------------- backend: posts --------------------------- *)
\* Query.orderDesc("$updatedAt"): the documents, latest update first.
\* The i-th document is the one that i - 1 documents precede; documents of
\* equal $updatedAt keep the order of their ids.
OrderDesc(S) ==
  LET Precedes(q, p) ==
        \/ updatedAt[q] > updatedAt[p]
        \/ updatedAt[q] = updatedAt[p] /\ q < p
  IN [i \in 1..Cardinality(S) |->
        CHOOSE p \in S : Cardinality({q \in S : Precedes(q, p)}) = i - 1]

\* databases.listDocuments with orderDesc, limit and an optional cursorAfter.
listDocumentsFromCursor(cursorAfter, limit) ==
  LET ord == OrderDesc(posts)
      start == IF cursorAfter = NoCursor THEN 0
               ELSE IndexOf(ord, cursorAfter) - 1
  IN SubSeq(ord, start + 1, Min(start + limit, Len(ord)))

listDocumentsShortLimit(cursorAfter, limit) ==
  LET ord == OrderDesc(posts)
      start == IF cursorAfter = NoCursor THEN 0 ELSE IndexOf(ord, cursorAfter)
  IN SubSeq(ord, start + 1, Min(start + limit - 1, Len(ord)))

listDocuments(cursorAfter, limit) ==
  LET ord == OrderDesc(posts)
      start == IF cursorAfter = NoCursor THEN 0 ELSE IndexOf(ord, cursorAfter)
  IN SubSeq(ord, start + 1, Min(start + limit, Len(ord)))

getInfinitePostsNoCursor(pageParam, reachable) ==
  IF ~reachable
  THEN [threw |-> TRUE, documents |-> <<>>]
  ELSE [threw |-> FALSE, documents |-> listDocuments(NoCursor, PageSize)]

\* getInfinitePosts({pageParam}): the page, or a thrown error when the
\* backend call fails (unreachable service, or a cursor document that no
\* longer exists).
getInfinitePosts(pageParam, reachable) ==
  LET cursorAfter == IF pageParam # NoCursor THEN pageParam ELSE NoCursor
  IN IF ~reachable \/ (cursorAfter # NoCursor /\ cursorAfter \notin posts)
     THEN [threw |-> TRUE, documents |-> <<>>]
     ELSE [threw |-> FALSE, documents |-> listDocuments(cursorAfter, PageSize)]

(* ------------------------ useGetPosts (feed) -------------------------- *)
getNextPageParamShortPage(lastPage) ==
  IF Len(lastPage) < PageSize THEN NoCursor ELSE lastPage[Len(lastPage)]

\* getNextPageParam of useGetPosts.
getNextPageParam(lastPage) ==
  IF Len(lastPage) = 0 THEN NoCursor ELSE lastPage[Len(lastPage)]

\* The infinite query takes a fetched page into data and recomputes
\* hasNextPage from getNextPageParam.
TakePage(pageParam, result) ==
  /\ feedLog' = Append(feedLog, pageParam)
  /\ IF result.threw
     THEN /\ feedStatus' = "error"
          /\ feedFailures' = feedFailures + 1
          /\ UNCHANGED <<pages, pageParams, hasNextPage, nextCursor>>
     ELSE /\ pages' = Append(pages, result.documents)
          /\ pageParams' = Append(pageParams, pageParam)
          /\ nextCursor' = getNextPageParam(result.documents)
          /\ hasNextPage' = (getNextPageParam(result.documents) # NoCursor)
          /\ feedStatus' = "success"
          /\ UNCHANGED feedFailures

\* The outcomes of reaching the backend that a run may still take.
Reachability == IF feedFailures < MaxFeedFailures THEN BOOLEAN ELSE {TRUE}

\* The first request of the infinite query, made without a cursor.
FetchFirstPage ==
  /\ pages = <<>>
  /\ \E reachable \in Reachability :
       TakePage(NoCursor, getInfinitePosts(NoCursor, reachable))
  /\ UNCHANGED <<backendVars, exploreVars, cacheVars>>
  /\ UNCHANGED accountVars
  /\ UNCHANGED statsVars
  /\ UNCHANGED viewVars

\* fetchNextPage(): requests the page after the last one while there is
\* one; without data or without a next page parameter it requests nothing.
fetchNextPage ==
  IF pages # <<>> /\ hasNextPage
  THEN \E reachable \in Reachability :
         TakePage(getNextPageParam(LastOf(pages)),
                  getInfinitePosts(getNextPageParam(LastOf(pages)), reachable))
  ELSE UNCHANGED feedVars

FetchNextPage ==
  /\ pages # <<>>
  /\ hasNextPage
  /\ fetchNextPage
  /\ UNCHANGED <<backendVars, exploreVars, cacheVars>>
  /\ UNCHANGED accountVars
  /\ UNCHANGED statsVars
  /\ UNCHANGED viewVars

(* --------------------- edits while paging the feed -------------------- *)
\* The newest $updatedAt a post may start with, and the posts edited since.
InitialNewest == 2 * MaxPosts
Newest ==
  CHOOSE t \in {updatedAt[p] : p \in PostIds} \cup {InitialNewest} :
    /\ \A p \in PostIds : updatedAt[p] <= t
    /\ InitialNewest <= t
Edited == {p \in posts : updatedAt[p] > InitialNewest}

\* An updateDocument of updatePost or likePost, by any client, succeeds on
\* the post: the backend sets its $updatedAt to the time of the write.
EditPost(postId) ==
  /\ postId \in posts \ Edited
  /\ Cardinality(Edited) < MaxEdits
  /\ updatedAt' = [updatedAt EXCEPT ![postId] = Newest + 1]
  /\ UNCHANGED <<posts, imageOf, storage, uploads, created, saves>>
  /\ UNCHANGED <<feedVars, exploreVars, cacheVars, accountVars, statsVars>>
  /\ UNCHANGED viewVars

(* ------------------------------ Explore ------------------------------- *)
SearchTermRaw(sv, ds) == sv

\* The term Explore hands to useSearchPosts: the debounced value.
SearchTerm(sv, ds) == ds

SearchEnabledAlways(searchTerm) == TRUE

\* useSearchPosts: enabled: Boolean(searchTerm).
SearchEnabled(searchTerm) == searchTerm # ""

\* useSearchPosts(term) as the term goes from oldTerm to newTerm: a new query
\* key is fetched with searchPosts(newTerm) when the query is enabled and no
\* fetch of that key is under way. calls is the count the step starts from.
useSearchPosts(oldTerm, newTerm, calls) ==
  IF newTerm # oldTerm /\ SearchEnabled(newTerm) /\ newTerm \notin searchFetching
  THEN /\ searchFetching' = searchFetching \cup {newTerm}
       /\ searchCalled' = searchCalled \cup {newTerm}
       /\ lastSearchTerm' = newTerm
       /\ callsSinceChange' = calls + 1
  ELSE /\ UNCHANGED <<searchFetching, searchCalled, lastSearchTerm>>
       /\ callsSinceChange' = calls

ShouldFetchNextInViewOnly(iv, sv) == iv

\* The condition of Explore's effect on [inView, searchValue].
ShouldFetchNext(iv, sv) == iv /\ sv = ""

\* Explore's effect, run with the values of the render that triggered it.
ExploreEffect(iv, sv) ==
  IF ShouldFetchNext(iv, sv) THEN fetchNextPage ELSE UNCHANGED feedVars

\* The scroll sentinel is rendered only with a next page and an empty input.
SentinelRendered == hasNextPage /\ searchValue = ""

shouldShowSearchResultsDebounced == debouncedSearch # ""

shouldShowSearchResults == searchValue # ""

\* isPending of the infinite query: no data and no error yet.
isPostFetching == feedStatus = "pending"

\* posts?.pages?.every(page => page.documents.length === 0), without search.
shouldShowPosts ==
  /\ ~shouldShowSearchResults
  /\ pages # <<>>
  /\ \A i \in 1..Len(pages) : Len(pages[i]) = 0

\* What the main content section of Explore renders.
Rendered ==
  IF isPostFetching THEN "skeleton"
  ELSE IF shouldShowSearchResults THEN "search"
  ELSE IF shouldShowPosts THEN "endOfPosts"
  ELSE "feedPages"

\* onChange of the search input: the state is set, the debounce timeout is
\* cleared and set again, and the effect on [inView, searchValue] runs.
Type(value) ==
  /\ value # searchValue
  /\ searchValue' = value
  /\ sinceChange' = 0
  /\ timerArmed' = TRUE
  /\ UNCHANGED <<debouncedSearch, inView>>
  /\ useSearchPosts(SearchTerm(searchValue, debouncedSearch),
                    SearchTerm(value, debouncedSearch), 0)
  /\ ExploreEffect(inView, value)
  /\ UNCHANGED <<searchResult, backendVars, cacheVars>>
  /\ UNCHANGED accountVars
  /\ UNCHANGED statsVars
  /\ UNCHANGED viewVars

\* Time passes; the debounce timeout fires once its delay has elapsed and
\* sets the debounced value, which useSearchPosts then observes.
Tick ==
  /\ timerArmed
  /\ sinceChange' = sinceChange + TickMs
  /\ IF sinceChange + TickMs >= DebounceDelay
     THEN /\ timerArmed' = FALSE
          /\ debouncedSearch' = searchValue
          /\ useSearchPosts(SearchTerm(searchValue, debouncedSearch),
                            SearchTerm(searchValue, searchValue),
                            callsSinceChange)
     ELSE UNCHANGED <<timerArmed, debouncedSearch, searchFetching,
                      searchCalled, lastSearchTerm, callsSinceChange>>
  /\ UNCHANGED <<searchValue, inView, searchResult, backendVars, feedVars,
                 cacheVars>>
  /\ UNCHANGED accountVars
  /\ UNCHANGED statsVars
  /\ UNCHANGED viewVars

\* What databases.listDocuments with Query.search("caption", term) may
\* answer: it throws, it resolves to nothing, or it resolves to a list of
\* the matching posts (none, one, or all of them).
SearchListings ==
  {[outcome |-> "throws", documents |-> {}],
   [outcome |-> "nothing", documents |-> {}]}
    \cup {[outcome |-> "ok", documents |-> d] :
            d \in {{}, posts} \cup {{p} : p \in {q \in posts : q = 1}}}

searchPostsReturnsEmptyList(searchTerm, listing) ==
  IF listing.outcome # "ok"
  THEN [threw |-> TRUE, documents |-> {}]
  ELSE [threw |-> FALSE, documents |-> listing.documents]

\* searchPosts(searchTerm): a missing or empty list throws inside the try,
\* and the catch rethrows whatever was thrown.
searchPosts(searchTerm, listing) ==
  IF listing.outcome # "ok" \/ Cardinality(listing.documents) = 0
  THEN [threw |-> TRUE, documents |-> {}]
  ELSE [threw |-> FALSE, documents |-> listing.documents]

\* No searchPosts call has settled yet.
NoSearchResult ==
  [term |-> "", listing |-> <<>>, threw |-> FALSE, documents |-> {}]

\* A searchPosts call settles (with posts, or by throwing).
SearchSettles(term, listing) ==
  /\ term \in searchFetching
  /\ searchFetching' = searchFetching \ {term}
  /\ LET r == searchPosts(term, listing) IN
       searchResult' = [term |-> term, listing |-> <<listing>>,
                        threw |-> r.threw, documents |-> r.documents]
  /\ UNCHANGED <<searchValue, debouncedSearch, sinceChange, timerArmed, inView,
                 searchCalled, lastSearchTerm, callsSinceChange>>
  /\ UNCHANGED <<backendVars, feedVars, cacheVars>>
  /\ UNCHANGED accountVars
  /\ UNCHANGED statsVars
  /\ UNCHANGED viewVars

\* The sentinel scrolls into view: inView turns true and the effect runs.
SentinelInView ==
  /\ SentinelRendered
  /\ ~inView
  /\ inView' = TRUE
  /\ ExploreEffect(TRUE, searchValue)
  /\ UNCHANGED <<searchValue, debouncedSearch, sinceChange, timerArmed,
                 searchFetching, searchCalled, lastSearchTerm,
                 callsSinceChange, searchResult, backendVars, cacheVars>>
  /\ UNCHANGED accountVars
  /\ UNCHANGED statsVars
  /\ UNCHANGED viewVars

\* The sentinel leaves the view, or the observer drops the inView of a
\* sentinel that is no longer rendered: inView turns false, the effect runs.
SentinelOutOfView ==
  /\ inView
  /\ inView' = FALSE
  /\ ExploreEffect(FALSE, searchValue)
  /\ UNCHANGED <<searchValue, debouncedSearch, sinceChange, timerArmed,
                 searchFetching, searchCalled, lastSearchTerm,
                 callsSinceChange, searchResult, backendVars, cacheVars>>
  /\ UNCHANGED accountVars
  /\ UNCHANGED statsVars
  /\ UNCHANGED viewVars

(* ------------------------- QUERY_KEYS (enum) -------------------------- *)
GET_CURRENT_USER == "getCurrentUser"
GET_POSTS == "getPosts"
GET_INFINITE_POSTS == "getInfinitePosts"
GET_RECENT_POSTS == "getRecentPosts"
GET_POST_BY_ID == "getPostById"
GET_USER_POSTS == "getUserPosts"

(* ------------------- backend wrapper: post mutations ------------------ *)
\* How the backend answers the calls of one operation: whether the upload,
\* the preview URL and a file deletion succeed, and whether the document
\* call returns the document, returns nothing, or throws.
BackendAnswers ==
  [upload : BOOLEAN, preview : BOOLEAN,
   document : {"ok", "nothing", "throws"}, deleteFile : BOOLEAN]

\* The answers that differ in what the calls of an operation meet: one
\* document call alone; a document call and a file deletion; an upload, a
\* preview, a document call and the deletion of the upload.
DocumentAnswers ==
  {b \in BackendAnswers : b.upload /\ b.preview /\ b.deleteFile}
DeletionAnswers ==
  {b \in BackendAnswers :
     b.upload /\ b.preview /\ (b.document # "ok" => b.deleteFile)}
UploadAnswers ==
  {b \in BackendAnswers :
     /\ ~b.upload => (b.preview /\ b.document = "ok" /\ b.deleteFile)
     /\ ~b.preview => b.document = "ok"
     /\ (b.preview /\ b.document # "nothing") => b.deleteFile}
UpdateAnswers(hasFileToUpdate) ==
  IF hasFileToUpdate THEN UploadAnswers ELSE DocumentAnswers

\* ID.unique() of the next uploaded file and of the next post document.
NewFileId == uploads + 1
NewPostId == created + 1

\* The uploaded file is removed by deleteFile unless that call fails.
AfterCleanup(fileId, b) ==
  IF b.deleteFile THEN storage \ {fileId} ELSE storage \cup {fileId}

\* createPost(post): upload, preview URL, document; a preview that is not
\* available or a document call that returns nothing deletes the upload.
createPost(b) ==
  LET fileId == NewFileId
      base == [threw |-> TRUE, uploaded |-> fileId, document |-> FALSE,
               imageId |-> fileId, calls |-> <<>>, storage |-> storage]
  IN IF ~b.upload
     THEN [base EXCEPT !.uploaded = NoFile, !.calls = <<"createFile">>]
     ELSE IF ~b.preview
     THEN [base EXCEPT !.calls = <<"createFile", "getFilePreview", "deleteFile">>,
                       !.storage = AfterCleanup(fileId, b)]
     ELSE IF b.document = "throws"
     THEN [base EXCEPT !.calls = <<"createFile", "getFilePreview", "createDocument">>,
                       !.storage = storage \cup {fileId}]
     ELSE IF b.document = "nothing"
     THEN [base EXCEPT !.calls = <<"createFile", "getFilePreview",
                                   "createDocument", "deleteFile">>,
                       !.storage = AfterCleanup(fileId, b)]
     ELSE [base EXCEPT !.threw = FALSE, !.document = TRUE,
                       !.calls = <<"createFile", "getFilePreview", "createDocument">>,
                       !.storage = storage \cup {fileId}]

\* updatePost(post): as createPost when a new file is given, else only the
\* document update with the image the post already has.
updatePost(postId, hasFileToUpdate, b) ==
  LET fileId == NewFileId
      base == [threw |-> TRUE, uploaded |-> NoFile, document |-> FALSE,
               imageId |-> imageOf[postId], calls |-> <<>>, storage |-> storage]
      up == IF hasFileToUpdate THEN <<"createFile", "getFilePreview">> ELSE <<>>
      kept == IF hasFileToUpdate THEN storage \cup {fileId} ELSE storage
      new == [base EXCEPT !.uploaded = IF hasFileToUpdate THEN fileId ELSE NoFile,
                          !.imageId = IF hasFileToUpdate THEN fileId
                                      ELSE imageOf[postId]]
  IN IF hasFileToUpdate /\ ~b.upload
     THEN [base EXCEPT !.calls = <<"createFile">>]
     ELSE IF hasFileToUpdate /\ ~b.preview
     THEN [new EXCEPT !.calls = <<"createFile", "getFilePreview", "deleteFile">>,
                      !.storage = AfterCleanup(fileId, b)]
     ELSE IF b.document = "throws"
     THEN [new EXCEPT !.calls = up \o <<"updateDocument">>, !.storage = kept]
     ELSE IF b.document = "nothing"
     THEN [new EXCEPT !.calls = up \o <<"updateDocument">>
                                \o (IF hasFileToUpdate THEN <<"deleteFile">> ELSE <<>>),
                      !.storage = IF hasFileToUpdate THEN AfterCleanup(fileId, b)
                                  ELSE storage]
     ELSE [new EXCEPT !.threw = FALSE, !.document = TRUE,
                      !.calls = up \o <<"updateDocument">>, !.storage = kept]

\* The message of the result of deletePost: fixed texts of the client, or
\* the message of the error the backend call threw.
MissingIdsMessage == "postId and imageId are required for deletion."
DeletedMessage == "Post and associated image deleted successfully."
DocumentNotDeletedMessage == "Failed to delete post document with postId"
FileNotDeletedMessage == "File deletion failed"
BackendErrorMessage == "message of the AppwriteException"
DocumentFailureMessage(b) ==
  IF b.document = "throws" THEN BackendErrorMessage
  ELSE DocumentNotDeletedMessage

deletePostUnguarded(postId, imageId, b) ==
  IF b.document # "ok"
  THEN [status |-> "Error", message |-> DocumentFailureMessage(b),
        threw |-> FALSE, calls |-> <<"deleteDocument">>,
        posts |-> posts, storage |-> storage]
  ELSE IF ~b.deleteFile
  THEN [status |-> "Error", message |-> FileNotDeletedMessage,
        threw |-> FALSE, calls |-> <<"deleteDocument", "deleteFile">>,
        posts |-> posts \ {postId}, storage |-> storage]
  ELSE [status |-> "Ok", message |-> DeletedMessage, threw |-> FALSE,
        calls |-> <<"deleteDocument", "deleteFile">>,
        posts |-> posts \ {postId}, storage |-> storage \ {imageId}]

deletePostFileFirst(postId, imageId, b) ==
  IF postId = NoPost \/ imageId = NoFile
  THEN [status |-> "Error", message |-> MissingIdsMessage, threw |-> FALSE,
        calls |-> <<>>, posts |-> posts, storage |-> storage]
  ELSE IF ~b.deleteFile
  THEN [status |-> "Error", message |-> FileNotDeletedMessage,
        threw |-> FALSE, calls |-> <<"deleteFile">>,
        posts |-> posts, storage |-> storage]
  ELSE IF b.document # "ok"
  THEN [status |-> "Error", message |-> DocumentFailureMessage(b),
        threw |-> FALSE, calls |-> <<"deleteFile", "deleteDocument">>,
        posts |-> posts, storage |-> storage \ {imageId}]
  ELSE [status |-> "Ok", message |-> DeletedMessage, threw |-> FALSE,
        calls |-> <<"deleteFile", "deleteDocument">>,
        posts |-> posts \ {postId}, storage |-> storage \ {imageId}]

deletePostAbsorbsFileFailure(postId, imageId, b) ==
  IF postId = NoPost \/ imageId = NoFile
  THEN [status |-> "Error", message |-> MissingIdsMessage, threw |-> FALSE,
        calls |-> <<>>, posts |-> posts, storage |-> storage]
  ELSE IF b.document # "ok"
  THEN [status |-> "Error", message |-> DocumentFailureMessage(b),
        threw |-> FALSE, calls |-> <<"deleteDocument">>,
        posts |-> posts, storage |-> storage]
  ELSE [status |-> "Ok", message |-> DeletedMessage, threw |-> FALSE,
        calls |-> <<"deleteDocument", "deleteFile">>,
        posts |-> posts \ {postId},
        storage |-> IF b.deleteFile THEN storage \ {imageId} ELSE storage]

\* deletePost(postId, imageId): both ids are required; the document is
\* deleted, then the file; every failure is caught and returned as status
\* "Error" with the message of the caught error.
deletePost(postId, imageId, b) ==
  IF postId = NoPost \/ imageId = NoFile
  THEN [status |-> "Error", message |-> MissingIdsMessage, threw |-> FALSE,
        calls |-> <<>>, posts |-> posts, storage |-> storage]
  ELSE IF b.document # "ok"
  THEN [status |-> "Error", message |-> DocumentFailureMessage(b),
        threw |-> FALSE, calls |-> <<"deleteDocument">>,
        posts |-> posts, storage |-> storage]
  ELSE IF ~b.deleteFile
  THEN [status |-> "Error", message |-> FileNotDeletedMessage,
        threw |-> FALSE, calls |-> <<"deleteDocument", "deleteFile">>,
        posts |-> posts \ {postId}, storage |-> storage]
  ELSE [status |-> "Ok", message |-> DeletedMessage, threw |-> FALSE,
        calls |-> <<"deleteDocument", "deleteFile">>,
        posts |-> posts \ {postId}, storage |-> storage \ {imageId}]

(* ------------------------- mutation hooks ----------------------------- *)
\* The query keys the mounted queries of the client are cached under.
QueriesInUse ==
  {<<GET_RECENT_POSTS>>, <<GET_INFINITE_POSTS>>, <<GET_CURRENT_USER>>,
   <<GET_USER_POSTS, CurrentUserId>>}
    \cup {<<GET_POST_BY_ID, p>> : p \in 1..MaxUploads}

\* The query keys each hook hands to invalidateQueries in onSuccess.
useCreatePostKeys == {<<GET_RECENT_POSTS>>}
useLikePostKeys(id) ==
  {<<GET_POST_BY_ID, id>>, <<GET_RECENT_POSTS>>, <<GET_POSTS>>,
   <<GET_CURRENT_USER>>}
useSavePostKeys == {<<GET_RECENT_POSTS>>, <<GET_POSTS>>, <<GET_CURRENT_USER>>}
useDeleteSavedPostKeys ==
  {<<GET_RECENT_POSTS>>, <<GET_POSTS>>, <<GET_CURRENT_USER>>}
useUpdatePostKeys(id) == {<<GET_POST_BY_ID, id>>}
useDeletePostKeys == {<<GET_RECENT_POSTS>>}

\* invalidateQueries({queryKey}) matches every query whose key starts with
\* queryKey.
KeyMatches(filter, key) ==
  /\ Len(filter) <= Len(key)
  /\ \A i \in 1..Len(filter) : filter[i] = key[i]

\* What a mutation function that returns no status object returns.
NoStatus == [status |-> "", message |-> ""]

\* The latest mutation, before any has run.
NoMutation ==
  [op |-> "none", post |-> NoPost, uploaded |-> NoFile, image |-> NoFile,
   threw |-> FALSE, status |-> "", message |-> "", answers |-> <<>>,
   calls |-> <<>>,
   invalidated |-> {}]

\* useMutation: onSuccess runs, and invalidates keys, only when mutationFn
\* did not throw.
useMutation(op, postId, uploaded, image, threw, result, b, calls, keys) ==
  /\ freshKeys' = IF threw THEN freshKeys
                  ELSE {k \in freshKeys : \A f \in keys : ~KeyMatches(f, k)}
  /\ lastOp' = [op |-> op, post |-> postId, uploaded |-> uploaded,
                image |-> image, threw |-> threw, status |-> result.status,
                message |-> result.message,
                answers |-> <<b>>, calls |-> calls,
                invalidated |-> IF threw THEN {} ELSE keys]

\* useCreatePost().mutateAsync(post)
CreatePost(b) ==
  /\ uploads < MaxUploads
  /\ LET r == createPost(b) IN
       /\ storage' = r.storage
       /\ uploads' = IF r.uploaded # NoFile THEN uploads + 1 ELSE uploads
       /\ created' = IF r.document THEN created + 1 ELSE created
       /\ posts' = IF r.document THEN posts \cup {NewPostId} ELSE posts
       /\ imageOf' = IF r.document
                     THEN [imageOf EXCEPT ![NewPostId] = r.imageId] ELSE imageOf
       /\ useMutation("createPost", IF r.document THEN NewPostId ELSE NoPost,
                      r.uploaded, r.imageId, r.threw, NoStatus, b, r.calls,
                      useCreatePostKeys)
  /\ UNCHANGED <<updatedAt, saves, feedVars, exploreVars>>
  /\ UNCHANGED accountVars
  /\ UNCHANGED statsVars
  /\ UNCHANGED currentUser
  /\ UNCHANGED <<form, dateShown, recentQuery>>

\* useUpdatePost().mutateAsync(post), with or without a new file.
UpdatePost(postId, hasFileToUpdate, b) ==
  /\ postId \in posts
  /\ hasFileToUpdate => uploads < MaxUploads
  /\ LET r == updatePost(postId, hasFileToUpdate, b) IN
       /\ storage' = r.storage
       /\ uploads' = IF r.uploaded # NoFile THEN uploads + 1 ELSE uploads
       /\ imageOf' = IF r.document
                     THEN [imageOf EXCEPT ![postId] = r.imageId] ELSE imageOf
       /\ useMutation("updatePost", postId, r.uploaded, r.imageId, r.threw,
                      NoStatus, b, r.calls, useUpdatePostKeys(postId))
  /\ UNCHANGED <<posts, updatedAt, created, saves, feedVars, exploreVars>>
  /\ UNCHANGED accountVars
  /\ UNCHANGED statsVars
  /\ UNCHANGED currentUser
  /\ UNCHANGED <<form, dateShown, recentQuery>>

\* handleDeletePost: the id of the first record of the cached current user
\* whose post is the loaded post (both missing compare equal); 0 when there
\* is none or the current user is not loaded.
savedRecordIdOf(loadedPost) ==
  LET found == {record \in currentUser.save : record.post = loadedPost}
  IN IF found = {} THEN 0
     ELSE CHOOSE id \in {r.id : r \in found} : \A r \in found : id <= r.id

\* PostDetails.handleDeletePost: useDeletePost().mutate({postId, imageId})
\* with the id of the route, missing when the route has none, and the
\* imageId of the post, missing while the post is not loaded; then
\* deleteSavedPost of the current user's cached record of the post, if any,
\* a call that deletes the record or throws.
DeletePost(postId, imageId, b, unsaved) ==
  /\ postId \in posts \cup {NoPost}
  /\ imageId \in {NoFile} \cup {imageOf[p] : p \in {postId} \cap posts}
  /\ LET r == deletePost(postId, imageId, b) IN
       /\ posts' = r.posts
       /\ storage' = r.storage
       /\ useMutation("deletePost", postId, NoFile, imageId, r.threw,
                      [status |-> r.status, message |-> r.message], b,
                      r.calls, useDeletePostKeys)
  /\ LET savedRecordId ==
           savedRecordIdOf(IF imageId # NoFile THEN postId ELSE NoPost)
     IN /\ savedRecordId = 0 => unsaved
        /\ saves' = IF savedRecordId # 0 /\ unsaved
                    THEN [saves EXCEPT !.records =
                            {x \in saves.records : x.id # savedRecordId}]
                    ELSE saves
  /\ UNCHANGED <<updatedAt, imageOf, uploads, created, feedVars,
                 exploreVars>>
  /\ UNCHANGED accountVars
  /\ UNCHANGED statsVars
  /\ UNCHANGED currentUser
  /\ UNCHANGED viewVars

\* useLikePost().mutate({postId, likesArray}): likePost throws when the
\* document update fails or returns nothing.
LikePost(postId, b) ==
  /\ postId \in posts
  /\ useMutation("likePost", postId, NoFile, NoFile, b.document # "ok", NoStatus, b,
                 <<"updateDocument">>, useLikePostKeys(postId))
  /\ UNCHANGED <<backendVars, feedVars, exploreVars>>
  /\ UNCHANGED accountVars
  /\ UNCHANGED statsVars
  /\ UNCHANGED currentUser
  /\ UNCHANGED viewVars

\* useSavePost().mutate({postId, userId}): savePost throws when the record
\* is not created.
SavePost(postId, b) ==
  /\ postId \in posts
  /\ saves.made < MaxSaves
  /\ saves' = IF b.document = "ok"
              THEN [made |-> saves.made + 1,
                    records |-> saves.records \cup
                                  {[id |-> saves.made + 1,
                                    user |-> CurrentUserId,
                                    post |-> postId]}]
              ELSE saves
  /\ useMutation("savePost", postId, NoFile, NoFile, b.document # "ok", NoStatus, b,
                 <<"createDocument">>, useSavePostKeys)
  /\ UNCHANGED <<posts, updatedAt, imageOf, storage, uploads, created,
                 feedVars, exploreVars>>
  /\ UNCHANGED accountVars
  /\ UNCHANGED statsVars
  /\ UNCHANGED currentUser
  /\ UNCHANGED viewVars

\* savePost(postId, userId) called by another user's session: the record is
\* created in the backend; nothing of this client's cache is touched.
OtherUserSaves(postId) ==
  /\ postId \in posts
  /\ saves.made < MaxSaves
  /\ saves' = [made |-> saves.made + 1,
               records |-> saves.records \cup
                             {[id |-> saves.made + 1, user |-> OtherUserId,
                               post |-> postId]}]
  /\ UNCHANGED <<posts, updatedAt, imageOf, storage, uploads, created>>
  /\ UNCHANGED <<feedVars, exploreVars, cacheVars, accountVars, statsVars>>
  /\ UNCHANGED viewVars

\* useDeleteSavedPost().mutate(savedRecordId): deleteSavedPost throws when
\* the record is not deleted.
DeleteSavedPost(record, b) ==
  /\ record \in saves.records
  /\ saves' = IF b.document = "ok"
              THEN [saves EXCEPT !.records = saves.records \ {record}]
              ELSE saves
  /\ useMutation("deleteSavedPost", record.post, NoFile, NoFile,
                 b.document # "ok", NoStatus, b, <<"deleteDocument">>,
                 useDeleteSavedPostKeys)
  /\ UNCHANGED <<posts, updatedAt, imageOf, storage, uploads, created,
                 feedVars, exploreVars>>
  /\ UNCHANGED accountVars
  /\ UNCHANGED statsVars
  /\ UNCHANGED currentUser
  /\ UNCHANGED viewVars

\* The current user is not loaded.
NoUser == [loaded |-> FALSE, save |-> {}]

\* getCurrentUser(): the user document of the account, with its saved
\* records; the post of a record is missing when the post no longer exists.
getCurrentUser ==
  [loaded |-> TRUE,
   save |-> {[id |-> r.id, post |-> IF r.post \in posts THEN r.post ELSE NoPost] :
               r \in {x \in saves.records : x.user = CurrentUserId}}]

PostStatsEffectNever(oldUser, newUser) == isSaved

\* PostStats useEffect on [currentUser, post]: when the current user data
\* changes and the post and the save list are there, isSaved becomes
\* whether a saved record points at the post.
PostStatsEffect(oldUser, newUser) ==
  IF newUser # oldUser /\ shownPost # NoPost /\ newUser.loaded
  THEN \E record \in newUser.save : record.post = shownPost
  ELSE isSaved

\* The mounted queries that are stale, or not fetched yet, fetch.
Refetch ==
  /\ freshKeys # QueriesInUse
  /\ freshKeys' = QueriesInUse
  /\ lastOp' = NoMutation
  /\ currentUser' = getCurrentUser
  /\ isSaved' = PostStatsEffect(currentUser, getCurrentUser)
  /\ UNCHANGED <<shownPost, likes, likesOf, pendingLikes, savePending,
                 lastToggle>>
  /\ UNCHANGED <<backendVars, feedVars, exploreVars>>
  /\ UNCHANGED accountVars
  /\ UNCHANGED viewVars
  /\ UNCHANGED otherClient

(* ----------------------------- PostStats ------------------------------ *)
\* The likes lists a post may start with.
LikeLists == UNION {[1..n -> Users] : n \in 0..MaxLikes}

\* Array.prototype.includes and Array.prototype.filter(id => id # userId).
Includes(list, userId) == \E i \in 1..Len(list) : list[i] = userId
IsNot(userId) == [id \in Users |-> id # userId]
Without(list, userId) ==
  LET keep(id) == IsNot(userId)[id] IN SelectSeq(list, keep)

toggleLikesAppendOnly(list, userId) == Append(list, userId)

\* toggleLike: the new likes array.
toggleLikes(list, userId) ==
  IF Includes(list, userId) THEN Without(list, userId)
  ELSE Append(list, userId)

useLikePostRollsBack(local, confirmed, threw) ==
  IF threw THEN confirmed ELSE local

\* The likes state once a likePost request has settled: useLikePost has no
\* onError and its onSuccess only invalidates queries, and PostStats reads
\* the likes of the post prop only for the initial state.
useLikePostSettled(local, confirmed, threw) == local

\* No toggle yet.
NoToggle ==
  [kind |-> "none", before |-> <<>>, after |-> <<>>, wasSaved |-> FALSE,
   calls |-> <<>>]

\* No savePost or deleteSavedPost request in flight.
NoRequest == [kind |-> "none", record |-> 0]

likePostMerges(stored, likesArray, b) ==
  IF b.document # "ok" THEN [threw |-> TRUE, likes |-> stored]
  ELSE [threw |-> FALSE,
        likes |-> stored \o SelectSeq(likesArray,
                                      LAMBDA id : ~Includes(stored, id))]

\* likePost(postId, likesArray) on a post whose stored likes are given:
\* updateDocument writes {likes: likesArray}; a failure is rethrown.
likePost(stored, likesArray, b) ==
  IF b.document # "ok" THEN [threw |-> TRUE, likes |-> stored]
  ELSE [threw |-> FALSE, likes |-> likesArray]

\* PostStats.toggleLike
ToggleLike ==
  /\ shownPost # NoPost
  /\ Len(pendingLikes) < MaxPendingLikes
  /\ LET updatedLikes == toggleLikes(likes, CurrentUserId) IN
       /\ likes' = updatedLikes
       /\ pendingLikes' = Append(pendingLikes, updatedLikes)
       /\ lastToggle' = [kind |-> "like", before |-> likes,
                         after |-> updatedLikes, wasSaved |-> isSaved,
                         calls |-> <<"likePost">>]
  /\ UNCHANGED <<shownPost, isSaved, likesOf, savePending>>
  /\ UNCHANGED <<backendVars, feedVars, exploreVars, cacheVars, accountVars>>
  /\ UNCHANGED viewVars
  /\ UNCHANGED otherClient

\* A likePost request settles: the likes of the post are written, or the
\* call throws.
LikeSettles(i, b) ==
  /\ i \in 1..Len(pendingLikes)
  /\ likesOf' = likePost(likesOf, pendingLikes[i], b).likes
  /\ pendingLikes' = [j \in 1..(Len(pendingLikes) - 1) |->
                        IF j < i THEN pendingLikes[j] ELSE pendingLikes[j + 1]]
  /\ likes' = useLikePostSettled(likes, likesOf',
                                 likePost(likesOf, pendingLikes[i], b).threw)
  /\ useMutation("likePost", shownPost, NoFile, NoFile,
                 likePost(likesOf, pendingLikes[i], b).threw,
                 NoStatus, b, <<"updateDocument">>, useLikePostKeys(shownPost))
  /\ UNCHANGED <<currentUser, shownPost, isSaved, savePending, lastToggle>>
  /\ UNCHANGED <<backendVars, feedVars, exploreVars, accountVars>>
  /\ UNCHANGED viewVars
  /\ UNCHANGED otherClient

\* PostStats.toggleLike in the session of another user, whose likes state
\* started from the same fetched post.
OtherUserTogglesLike ==
  /\ shownPost # NoPost
  /\ otherClient.pending = <<>>
  /\ LET updatedLikes == toggleLikes(otherClient.likes, OtherUserId) IN
       otherClient' = [likes |-> updatedLikes, pending |-> <<updatedLikes>>]
  /\ UNCHANGED <<shownPost, likes, isSaved, likesOf, pendingLikes,
                 savePending, lastToggle>>
  /\ UNCHANGED <<backendVars, feedVars, exploreVars, cacheVars, accountVars>>
  /\ UNCHANGED viewVars

\* The likePost request of the other user settles.
OtherLikeSettles(b) ==
  /\ otherClient.pending # <<>>
  /\ likesOf' = likePost(likesOf, otherClient.pending[1], b).likes
  /\ otherClient' = [otherClient EXCEPT !.pending = <<>>]
  /\ UNCHANGED <<shownPost, likes, isSaved, pendingLikes, savePending,
                 lastToggle>>
  /\ UNCHANGED <<backendVars, feedVars, exploreVars, cacheVars, accountVars>>
  /\ UNCHANGED viewVars

\* PostStats.toggleSave; the icon that calls it is replaced by a loader
\* while a save or unsave request is pending.
ToggleSave ==
  /\ savePending = NoRequest
  /\ shownPost # NoPost
  /\ currentUser.loaded
  /\ ~isSaved => saves.made < MaxSaves
  /\ isSaved' = ~isSaved
  /\ LET found == {record \in currentUser.save : record.post = shownPost}
         savedRecordId == IF found = {} THEN 0
                          ELSE CHOOSE id \in {r.id : r \in found} :
                                 \A r \in found : id <= r.id
     IN /\ savePending' =
             IF ~isSaved THEN [kind |-> "save", record |-> 0]
             ELSE IF found # {} THEN [kind |-> "unsave", record |-> savedRecordId]
             ELSE NoRequest
        /\ lastToggle' =
             [kind |-> "save", before |-> likes, after |-> likes,
              wasSaved |-> isSaved,
              calls |-> IF ~isSaved THEN <<"savePost">>
                        ELSE IF found # {} THEN <<"deleteSavedPost">>
                        ELSE <<>>]
  /\ UNCHANGED <<shownPost, likes, likesOf, pendingLikes>>
  /\ UNCHANGED <<backendVars, feedVars, exploreVars, cacheVars, accountVars>>
  /\ UNCHANGED viewVars
  /\ UNCHANGED otherClient

\* The savePost request of toggleSave settles.
SaveSettles(b) ==
  /\ savePending.kind = "save"
  /\ savePending' = NoRequest
  /\ saves' = IF b.document = "ok"
              THEN [made |-> saves.made + 1,
                    records |-> saves.records \cup
                                  {[id |-> saves.made + 1,
                                    user |-> CurrentUserId,
                                    post |-> shownPost]}]
              ELSE saves
  /\ useMutation("savePost", shownPost, NoFile, NoFile, b.document # "ok",
                 NoStatus, b, <<"createDocument">>, useSavePostKeys)
  /\ UNCHANGED <<posts, updatedAt, imageOf, storage, uploads, created>>
  /\ UNCHANGED <<currentUser, shownPost, likes, isSaved, likesOf,
                 pendingLikes, lastToggle>>
  /\ UNCHANGED <<feedVars, exploreVars, accountVars>>
  /\ UNCHANGED viewVars
  /\ UNCHANGED otherClient

\* The deleteSavedPost request of toggleSave settles.
UnsaveSettles(b) ==
  /\ savePending.kind = "unsave"
  /\ savePending' = NoRequest
  /\ saves' = IF b.document = "ok"
              THEN [saves EXCEPT !.records =
                      {r \in saves.records : r.id # savePending.record}]
              ELSE saves
  /\ useMutation("deleteSavedPost", shownPost, NoFile, NoFile,
                 b.document # "ok", NoStatus, b, <<"deleteDocument">>,
                 useDeleteSavedPostKeys)
  /\ UNCHANGED <<posts, updatedAt, imageOf, storage, uploads, created>>
  /\ UNCHANGED <<currentUser, shownPost, likes, isSaved, likesOf,
                 pendingLikes, lastToggle>>
  /\ UNCHANGED <<feedVars, exploreVars, accountVars>>
  /\ UNCHANGED viewVars
  /\ UNCHANGED otherClient

\* No PostStats is mounted.
StatsInit ==
  /\ shownPost = NoPost
  /\ likes = <<>>
  /\ isSaved = FALSE
  /\ likesOf = <<>>
  /\ pendingLikes = <<>>
  /\ savePending = NoRequest
  /\ lastToggle = NoToggle
  /\ otherClient = [likes |-> <<>>, pending |-> <<>>]

(* ------------------------------ sign-up ------------------------------- *)
\* Strings are sequences of character codes. The characters a username is
\* typed from: ! - . / 5 @ Z _ a
Chars == {33, 45, 46, 47, 53, 64, 90, 95, 97}
Usernames == UNION {[1..n -> Chars] : n \in 0..MaxNameLen}

\* The character class of sanitizeUsername, [^a-zA-Z0-9.-_], negated: the
\* ranges a-z, A-Z, 0-9 and the range from "." to "_".
InClass(c) ==
  \/ c \in 97..122
  \/ c \in 65..90
  \/ c \in 48..57
  \/ c \in 46..95

\* String.prototype.toLowerCase on one character.
toLowerCase(c) == IF c \in 65..90 THEN c + 32 ELSE c

\* sanitizeUsername(username): username.replace(/[^a-zA-Z0-9.-_]/g, "")
\* .toLowerCase()
sanitizeUsername(username) ==
  LET kept == SelectSeq(username, InClass)
  IN [i \in 1..Len(kept) |-> toLowerCase(kept[i])]

\* How the services answer the calls of createUserAccount: account.create
\* and databases.createDocument return their result, return nothing, or
\* throw; building the avatar URL succeeds or throws.
AccountAnswers ==
  {b \in [account : {"ok", "nothing", "throws"}, avatar : BOOLEAN,
          document : {"ok", "nothing", "throws"}] :
     /\ b.account # "ok" => (b.avatar /\ b.document = "ok")
     /\ ~b.avatar => b.document = "ok"}

\* saveUserToDB(user): the created document, whatever createDocument
\* resolved to, or a rethrown error.
saveUserToDB(b) ==
  [threw |-> b.document = "throws",
   value |-> IF b.document = "ok" THEN "document" ELSE "nothing"]

createUserAccountRethrows(username, b) ==
  LET userId == <<sanitizeUsername(username), Cardinality(accounts) + 1>>
      base == [threw |-> FALSE, value |-> "null", userId |-> userId,
               calls |-> <<"account.create">>, account |-> FALSE,
               document |-> FALSE]
  IN IF b.account # "ok" THEN base
     ELSE IF ~b.avatar
     THEN [base EXCEPT !.account = TRUE,
                       !.calls = <<"account.create", "avatars.getInitials">>]
     ELSE LET saved == saveUserToDB(b) IN
          [base EXCEPT !.account = TRUE,
                       !.calls = <<"account.create", "avatars.getInitials",
                                   "createDocument">>,
                       !.threw = saved.threw,
                       !.value = saved.value,
                       !.document = b.document = "ok"]

createUserAccountCompensates(username, b) ==
  LET userId == <<sanitizeUsername(username), Cardinality(accounts) + 1>>
      base == [threw |-> FALSE, value |-> "null", userId |-> userId,
               calls |-> <<"account.create">>, account |-> FALSE,
               document |-> FALSE]
  IN IF b.account # "ok" THEN base
     ELSE IF ~b.avatar
     THEN [base EXCEPT !.calls = <<"account.create", "avatars.getInitials",
                                   "account.delete">>]
     ELSE LET saved == saveUserToDB(b) IN
          [base EXCEPT !.account = b.document = "ok",
                       !.calls = IF b.document = "ok"
                                 THEN <<"account.create", "avatars.getInitials",
                                        "createDocument">>
                                 ELSE <<"account.create", "avatars.getInitials",
                                        "createDocument", "account.delete">>,
                       !.value = IF saved.threw THEN "null" ELSE saved.value,
                       !.document = b.document = "ok"]

\* createUserAccount(user): the user id is the sanitized username and a
\* random suffix (here the number of the account); the account is created,
\* then the user document is saved; every error is caught and null returned.
createUserAccount(username, b) ==
  LET userId == <<sanitizeUsername(username), Cardinality(accounts) + 1>>
      base == [threw |-> FALSE, value |-> "null", userId |-> userId,
               calls |-> <<"account.create">>, account |-> FALSE,
               document |-> FALSE]
  IN IF b.account # "ok" THEN base
     ELSE IF ~b.avatar
     THEN [base EXCEPT !.account = TRUE,
                       !.calls = <<"account.create", "avatars.getInitials">>]
     ELSE LET saved == saveUserToDB(b) IN
          [base EXCEPT !.account = TRUE,
                       !.calls = <<"account.create", "avatars.getInitials",
                                   "createDocument">>,
                       !.value = IF saved.threw THEN "null" ELSE saved.value,
                       !.document = b.document = "ok"]

\* No sign-up has been submitted yet.
NoSignup ==
  [username |-> <<>>, answers |-> <<>>, threw |-> FALSE, value |-> "",
   userId |-> <<>>, calls |-> <<>>, toast |-> ""]

\* SignupForm.onSubmit up to the test of the result of createUserAccount,
\* with the username the form holds.
Signup(b) ==
  /\ Cardinality(accounts) < MaxAccounts
  /\ LET username == signup.username
         r == createUserAccount(username, b)
         n == Cardinality(accounts) + 1 IN
       /\ accounts' = IF r.account THEN accounts \cup {n} ELSE accounts
       /\ users' = IF r.document THEN users \cup {n} ELSE users
       /\ signup' = [username |-> username, answers |-> <<b>>,
                     threw |-> r.threw, value |-> r.value,
                     userId |-> r.userId, calls |-> r.calls,
                     toast |-> IF r.threw THEN ""
                               ELSE IF r.value # "document"
                               THEN "Sign up failed. Please try again."
                               ELSE ""]
  /\ UNCHANGED <<backendVars, feedVars, exploreVars, cacheVars>>
  /\ UNCHANGED statsVars
  /\ UNCHANGED viewVars

AccountInit ==
  /\ accounts = {}
  /\ users = {}
  /\ signup = NoSignup

(* ------------------------------ PostForm ------------------------------ *)
\* The characters tags are typed from: space , a b
Space == 32
Comma == 44
TagChars == {Space, Comma, 97, 98}
TagStrings == UNION {[1..n -> TagChars] : n \in 0..MaxTagsLen}

\* An argument of type string | undefined.
Undefined == [defined |-> FALSE, value |-> <<>>]
String(value) == [defined |-> TRUE, value |-> value]

\* String.prototype.replace(/ /g, "")
NotSpace(c) == c # Space
RemoveSpaces(s) == SelectSeq(s, NotSpace)

\* String.prototype.split(separator): the segments between the separators;
\* a string without separator, the empty one included, is one segment.
RECURSIVE split(_, _)
split(s, separator) ==
  IF \A i \in 1..Len(s) : s[i] # separator THEN <<s>>
  ELSE LET i == CHOOSE k \in 1..Len(s) :
                  /\ s[k] = separator
                  /\ \A j \in 1..(k - 1) : s[j] # separator
       IN <<SubSeq(s, 1, i - 1)>> \o split(SubSeq(s, i + 1, Len(s)), separator)

processTagsKeepsSpaces(tags) ==
  IF ~tags.defined THEN <<>> ELSE split(tags.value, Comma)

\* processTags(tags): tags?.replace(/ /g, "").split(",") || []
processTags(tags) ==
  IF ~tags.defined THEN <<>> ELSE split(RemoveSpaces(tags.value), Comma)

\* PostValidation: the bounds of caption and location, in characters.
CaptionMin == 5
CaptionMax == 2200
LocationMin == 2
LocationMax == 100

\* A text of n characters.
Text(n) == [i \in 1..n |-> 97]

PostValidationNoMax(values) ==
  {field \in {"caption"} : Len(values.caption) < CaptionMin}
    \cup {field \in {"location"} : Len(values.location) < LocationMin}

\* PostValidation as run by zodResolver: the fields whose value is
\* rejected; tags is any string and file is not checked.
PostValidation(values) ==
  {field \in {"caption"} :
     Len(values.caption) < CaptionMin \/ Len(values.caption) > CaptionMax}
    \cup {field \in {"location"} :
            Len(values.location) < LocationMin
              \/ Len(values.location) > LocationMax}

\* The forms a run starts from: every typed tags string with a caption and
\* a location of the least accepted length, and every combination of
\* caption and location lengths around the bounds without tags; the form
\* creates a post, or updates post 1 with or without a new file.
PostForms ==
  LET Values ==
        {[caption |-> Text(CaptionMin), location |-> Text(LocationMin),
          tags |-> t] : t \in TagStrings}
        \cup {[caption |-> Text(c), location |-> Text(l), tags |-> <<>>] :
                c \in {0, CaptionMin - 1, CaptionMin, CaptionMax,
                       CaptionMax + 1},
                l \in {LocationMin - 1, LocationMin, LocationMax,
                       LocationMax + 1}}
      Props == {[action |-> "Create", post |-> NoPost, hasFile |-> TRUE],
                [action |-> "Update", post |-> 1, hasFile |-> TRUE],
                [action |-> "Update", post |-> 1, hasFile |-> FALSE]}
  IN {[values |-> v, props |-> q] : v \in Values, q \in Props}

\* No PostForm is mounted; nothing was submitted.
NoForm ==
  [values |-> [caption |-> <<>>, location |-> <<>>, tags |-> <<>>],
   props |-> [action |-> "Create", post |-> NoPost, hasFile |-> FALSE]]
NoSubmission ==
  [errors |-> {}, called |-> "none", caption |-> <<>>, location |-> <<>>,
   calls |-> <<>>, documentSent |-> FALSE, tags |-> <<>>]

\* form.handleSubmit(onSubmit): the resolver validates the values; with an
\* error the errors are shown and onSubmit is not called; without, onSubmit
\* calls updatePost for an Update form with a post and createPost
\* otherwise, with the values of the form. The document call of either
\* carries processTags of the tags field.
SubmitPostForm(b) ==
  LET values == form.values
      errors == PostValidation(values)
      update == form.props.post # NoPost /\ form.props.action = "Update"
  IN /\ form # NoForm
     /\ IF errors # {}
        THEN /\ sent' = [NoSubmission EXCEPT !.errors = errors]
             /\ UNCHANGED <<backendVars, feedVars, exploreVars, cacheVars,
                            accountVars, statsVars>>
             /\ UNCHANGED <<form, dateShown, recentQuery>>
        ELSE /\ IF update
                THEN /\ b \in UpdateAnswers(form.props.hasFile)
                     /\ UpdatePost(form.props.post, form.props.hasFile, b)
                ELSE /\ b \in UploadAnswers
                     /\ CreatePost(b)
             /\ LET documentSent ==
                      \E i \in 1..Len(lastOp'.calls) :
                        lastOp'.calls[i] \in {"createDocument", "updateDocument"}
                IN sent' =
                     [errors |-> {},
                      called |-> IF update THEN "updatePost" ELSE "createPost",
                      caption |-> values.caption,
                      location |-> values.location,
                      calls |-> lastOp'.calls,
                      documentSent |-> documentSent,
                      tags |-> IF documentSent
                               THEN processTags(String(values.tags))
                               ELSE <<>>]

(* ------------------------------ PostCard ------------------------------ *)
\* Date.getTime() counts milliseconds; times are kept here in units of
\* 100 ms, so that an age of 40 days is a 32-bit integer.
\* The divisors of multiFormatDateString and its threshold in days.
UnitMs == 100
MsPerSecond == 1000
SecondsPerMinute == 60
MinutesPerHour == 60
HoursPerDay == 24
FullDateFromDays == 30
Second == MsPerSecond \div UnitMs
Minute == Second * SecondsPerMinute
Hour == Minute * MinutesPerHour
Day == Hour * HoursPerDay

\* A timestamp string that new Date() cannot parse (getTime() is NaN), the
\* default "" included, and one it parses to the time t.
InvalidTimestamp == [valid |-> FALSE, time |-> 0]
Timestamp(t) == [valid |-> TRUE, time |-> t]

\* The texts multiFormatDateString returns: "", "Just now", "<value>
\* <unit> ago" or "<value> <unit>s ago", and formatDateString(timestamp),
\* the calendar date and time of day of the timestamp.
EmptyText == [kind |-> "empty", value |-> 0, unit |-> "", plural |-> FALSE]
JustNow == [kind |-> "Just now", value |-> 0, unit |-> "", plural |-> FALSE]
formatDateString(timestamp) ==
  [kind |-> "date", value |-> timestamp.time, unit |-> "", plural |-> FALSE]

\* pluralize(value, unit): Math.floor(value), the unit, "s" when the floor
\* exceeds 1, "ago". The value is diff / unitMs with diff >= unitMs > 0.
pluralizeRounds(diff, unitMs, unit) ==
  [kind |-> "ago", value |-> (2 * diff + unitMs) \div (2 * unitMs),
   unit |-> unit,
   plural |-> ((2 * diff + unitMs) \div (2 * unitMs)) > 1]

pluralize(diff, unitMs, unit) ==
  [kind |-> "ago", value |-> diff \div unitMs, unit |-> unit,
   plural |-> (diff \div unitMs) > 1]

\* multiFormatDateString(timestamp) evaluated at the time now. The
\* quotients diffInMinutes, diffInHours and diffInDays are compared with
\* their thresholds as exact quotients of the difference in milliseconds.
multiFormatDateString(timestamp, now) ==
  IF ~timestamp.valid THEN EmptyText
  ELSE LET diff == now - timestamp.time IN
       IF diff >= FullDateFromDays * Day THEN formatDateString(timestamp)
       ELSE IF diff >= Day THEN pluralize(diff, Day, "day")
       ELSE IF diff >= Hour THEN pluralize(diff, Hour, "hour")
       ELSE IF diff >= Minute THEN pluralize(diff, Minute, "minute")
       ELSE JustNow

\* The $createdAt values a PostCard is given, and how old the post is when
\* the card renders, in milliseconds.
Timestamps ==
  {InvalidTimestamp} \cup
    {Timestamp(t) : t \in {0, 1, 999, Minute, Day + 1}}
Ages ==
  {-Minute, -1, 0, 1, 45 * Second, Minute - 1, Minute,
   Minute + 1, 2 * Minute - 1, 2 * Minute, Hour - 1,
   Hour, 90 * Minute, 2 * Hour - 1, 2 * Hour,
   Day - 1, Day, 2 * Day - 1, 2 * Day,
   FullDateFromDays * Day - 1, FullDateFromDays * Day,
   40 * Day}

\* No date is rendered.
NoDate == [timestamp |-> InvalidTimestamp, now |-> 0, text |-> EmptyText,
           rendered |-> FALSE]

\* PostCard renders multiFormatDateString($createdAt) when the post has
\* the given age.
RenderPostCard(timestamp, age) ==
  /\ dateShown' = [timestamp |-> timestamp, now |-> timestamp.time + age,
                   text |-> multiFormatDateString(timestamp,
                                                  timestamp.time + age),
                   rendered |-> TRUE]
  /\ UNCHANGED <<backendVars, feedVars, exploreVars, cacheVars, accountVars,
                 statsVars>>
  /\ UNCHANGED <<form, sent, recentQuery>>

(* -------------------------------- Home -------------------------------- *)
\* The query of useGetRecentPosts before its first fetch: no data, no error,
\* no fetch running; answers are the backend's answers to the calls of the
\* current fetch.
NoRecentQuery ==
  [status |-> "pending", documents |-> <<>>, error |-> "",
   failureCount |-> 0, fetching |-> FALSE, answers |-> <<>>]

\* The pages are not mounted.
ViewInit ==
  /\ form = NoForm
  /\ sent = NoSubmission
  /\ dateShown = NoDate
  /\ recentQuery = NoRecentQuery

\* Query.limit(20) of getRecentPosts.
RecentLimit == 20

\* The retries of a failed query: new QueryClient() keeps the default of 3.
RetryCount == 3

FailedToFetchRecentPosts == "Failed to fetch recent posts"

\* How databases.listDocuments answers: with the list, or by throwing.
ListAnswers == {"ok", "throws"}

\* Query.orderDesc("$createdAt"): post ids are given in order of creation.
OrderDescCreated(S) ==
  [i \in 1..Cardinality(S) |->
     CHOOSE p \in S : Cardinality({q \in S : q > p}) = i - 1]

\* getRecentPosts without the test of an empty result.
getRecentPostsReturnsEmptyList(b) ==
  IF b = "throws"
  THEN [threw |-> TRUE, message |-> FailedToFetchRecentPosts,
        documents |-> <<>>]
  ELSE LET ord == OrderDescCreated(posts)
       IN [threw |-> FALSE, message |-> "",
           documents |-> SubSeq(ord, 1, Min(RecentLimit, Len(ord)))]

\* getRecentPosts(): the newest RecentLimit posts; a listDocuments that
\* throws and the "No posts found" thrown for an empty result are both
\* caught and replaced by the same error.
getRecentPosts(b) ==
  LET ord == OrderDescCreated(posts)
      documents == SubSeq(ord, 1, Min(RecentLimit, Len(ord)))
      inner == IF b = "throws" THEN "listDocuments failed"
               ELSE IF Len(documents) = 0 THEN "No posts found"
               ELSE ""
  IN IF inner # ""
     THEN [threw |-> TRUE, message |-> FailedToFetchRecentPosts,
           documents |-> <<>>]
     ELSE [threw |-> FALSE, message |-> "", documents |-> documents]

\* One run of the query function of useGetRecentPosts, answered by b: a
\* result becomes the data; a failure is retried RetryCount times before the
\* query ends in the error state with the thrown message.
FetchRecentPosts(b) ==
  /\ recentQuery.fetching
  /\ LET r == getRecentPosts(b)
         answers == Append(recentQuery.answers, b)
     IN recentQuery' =
          IF ~r.threw
          THEN [status |-> "success", documents |-> r.documents,
                error |-> "", failureCount |-> 0, fetching |-> FALSE,
                answers |-> answers]
          ELSE IF recentQuery.failureCount < RetryCount
          THEN [recentQuery EXCEPT !.failureCount = @ + 1,
                                   !.answers = answers]
          ELSE [recentQuery EXCEPT !.status = "error", !.error = r.message,
                                   !.failureCount = @ + 1,
                                   !.fetching = FALSE, !.answers = answers]
  /\ UNCHANGED <<backendVars, feedVars, exploreVars, cacheVars, accountVars,
                 statsVars>>
  /\ UNCHANGED <<form, sent, dateShown>>

\* A settled query is fetched again (the window regains focus, or Home is
\* mounted again): its data and error stay until the fetch ends.
RefetchRecentPosts ==
  /\ ~recentQuery.fetching
  /\ recentQuery' = [recentQuery EXCEPT !.fetching = TRUE,
                                        !.failureCount = 0,
                                        !.answers = <<>>]
  /\ UNCHANGED <<backendVars, feedVars, exploreVars, cacheVars, accountVars,
                 statsVars>>
  /\ UNCHANGED <<form, sent, dateShown>>

\* What Home renders: the loader while the query is pending without data,
\* otherwise one PostCard per document of the data (none without data).
Home ==
  IF recentQuery.status = "pending" /\ recentQuery.documents = <<>>
  THEN [loader |-> TRUE, cards |-> <<>>]
  ELSE [loader |-> FALSE, cards |-> recentQuery.documents]

(* ----------------------- static backing set --------------------------- *)
\* Three ways the posts may be stamped: newest id first, oldest id first,
\* and odd ids before even ids.
Stampings ==
  { [p \in PostIds |-> p],
    [p \in PostIds |-> MaxPosts + 1 - p],
    [p \in PostIds |-> IF p % 2 = 1 THEN p ELSE p + MaxPosts] }

FeedInit ==
  /\ pages = <<>>
  /\ pageParams = <<>>
  /\ hasNextPage = FALSE
  /\ nextCursor = NoCursor
  /\ feedStatus = "pending"
  /\ feedLog = <<>>
  /\ feedFailures = 0

\* Explore as mounted: an empty input, the debounce timeout of the first
\* render pending, the sentinel not rendered.
ExploreInit ==
  /\ searchValue = ""
  /\ debouncedSearch = ""
  /\ sinceChange = 0
  /\ timerArmed = TRUE
  /\ inView = FALSE
  /\ searchFetching = {t \in {""} : SearchEnabled(t)}
  /\ searchCalled = {t \in {""} : SearchEnabled(t)}
  /\ lastSearchTerm = ""
  /\ callsSinceChange = 0
  /\ searchResult = NoSearchResult

\* A backend holding posts 1..n, each with its image file, and no saves;
\* nothing is cached yet.
StoreInit(n) ==
  /\ posts = 1..n
  /\ imageOf = [p \in PostIds |-> IF p <= n THEN p ELSE NoFile]
  /\ storage = 1..n
  /\ uploads = n
  /\ created = n
  /\ saves = [made |-> 0, records |-> {}]
  /\ freshKeys = {}
  /\ lastOp = NoMutation
  /\ currentUser = NoUser

InitFeed ==
  /\ \E n \in 0..MaxPosts : StoreInit(n)
  /\ updatedAt \in Stampings
  /\ FeedInit
  /\ ExploreInit
  /\ AccountInit
  /\ StatsInit
  /\ ViewInit

NextFeed == FetchFirstPage \/ FetchNextPage

SpecFeed == InitFeed /\ [][NextFeed]_vars

\* The feed is fetched page after page for as long as a next page exists:
\* the first request is made on mount and repeated after a failure, and the
\* sentinel asks for the next page while hasNextPage holds.
SpecFeedScroll ==
  /\ InitFeed
  /\ [][NextFeed]_vars
  /\ WF_vars(FetchFirstPage)
  /\ WF_vars(FetchNextPage)

(* ------------------------------ Home page ----------------------------- *)
\* Home is mounted over a backend of 0..MaxPosts posts: the first fetch of
\* the recent posts is running.
InitHome ==
  /\ \E n \in 0..MaxPosts : StoreInit(n)
  /\ updatedAt = [p \in PostIds |-> p]
  /\ FeedInit
  /\ ExploreInit
  /\ AccountInit
  /\ StatsInit
  /\ form = NoForm
  /\ sent = NoSubmission
  /\ dateShown = NoDate
  /\ recentQuery = [NoRecentQuery EXCEPT !.fetching = TRUE]

NextHome ==
  \/ \E b \in ListAnswers : FetchRecentPosts(b)
  \/ RefetchRecentPosts

SpecHome == InitHome /\ [][NextHome]_vars

(* --------------------------- Explore page ----------------------------- *)
InitExplore ==
  /\ \E n \in {0, Min(MaxPosts, PageSize + 1)} : StoreInit(n)
  /\ updatedAt = [p \in PostIds |-> p]
  /\ FeedInit
  /\ ExploreInit
  /\ AccountInit
  /\ StatsInit
  /\ ViewInit

NextExplore ==
  \/ FetchFirstPage
  \/ \E value \in SearchInputs : Type(value)
  \/ Tick
  \/ \E term \in SearchInputs, listing \in SearchListings :
       SearchSettles(term, listing)
  \/ SentinelInView
  \/ SentinelOutOfView

SpecExplore == InitExplore /\ [][NextExplore]_vars

(* -------------------------- post mutations ---------------------------- *)
InitPosts ==
  /\ \E n \in 0..1 : StoreInit(n)
  /\ updatedAt = [p \in PostIds |-> p]
  /\ FeedInit
  /\ ExploreInit
  /\ AccountInit
  /\ StatsInit
  /\ ViewInit

NextPosts ==
  \/ \E b \in UploadAnswers : CreatePost(b) /\ UNCHANGED sent
  \/ \E postId \in posts, hasFile \in BOOLEAN :
       \E b \in UpdateAnswers(hasFile) :
         UpdatePost(postId, hasFile, b) /\ UNCHANGED sent
  \/ \E postId \in posts \cup {NoPost}, imageId \in {NoFile} \cup Elems(imageOf),
        b \in DeletionAnswers, unsaved \in BOOLEAN :
       DeletePost(postId, imageId, b, unsaved)
  \/ \E postId \in posts, b \in DocumentAnswers : LikePost(postId, b)
  \/ Refetch

SpecPosts == InitPosts /\ [][NextPosts]_vars

(* --------------------------- saved records ---------------------------- *)
\* One or two posts, none of them saved yet.
InitSaves ==
  /\ \E n \in 1..2 : StoreInit(n)
  /\ updatedAt = [p \in PostIds |-> p]
  /\ FeedInit
  /\ ExploreInit
  /\ AccountInit
  /\ StatsInit
  /\ ViewInit

NextSaves ==
  \/ \E postId \in posts, b \in DocumentAnswers : SavePost(postId, b)
  \/ \E postId \in posts : OtherUserSaves(postId)
  \/ \E record \in {r \in saves.records : r.user = CurrentUserId},
        b \in DocumentAnswers : DeleteSavedPost(record, b)
  \/ \E postId \in posts \cup {NoPost}, imageId \in {NoFile} \cup Elems(imageOf),
        b \in DeletionAnswers, unsaved \in BOOLEAN :
       DeletePost(postId, imageId, b, unsaved)
  \/ Refetch

SpecSaves == InitSaves /\ [][NextSaves]_vars

(* ------------------------------ sign-up ------------------------------- *)
\* The form holds any username; nothing has been submitted.
InitAccount ==
  /\ StoreInit(0)
  /\ updatedAt = [p \in PostIds |-> p]
  /\ FeedInit
  /\ ExploreInit
  /\ accounts = {}
  /\ users = {}
  /\ \E username \in Usernames :
       signup = [NoSignup EXCEPT !.username = username]
  /\ StatsInit
  /\ ViewInit

NextAccount == \E b \in AccountAnswers : Signup(b)

SpecAccount == InitAccount /\ [][NextAccount]_vars

(* ------------------------------ PostForm ------------------------------ *)
\* One post in the backend; the form holds any of the values.
InitForm ==
  /\ StoreInit(1)
  /\ updatedAt = [p \in PostIds |-> p]
  /\ FeedInit
  /\ ExploreInit
  /\ AccountInit
  /\ StatsInit
  /\ form \in PostForms
  /\ sent = NoSubmission
  /\ dateShown = NoDate
  /\ recentQuery = NoRecentQuery

NextForm == \E b \in BackendAnswers : SubmitPostForm(b)

SpecForm == InitForm /\ [][NextForm]_vars

(* ------------------------------ PostCard ------------------------------ *)
InitDates ==
  /\ StoreInit(1)
  /\ updatedAt = [p \in PostIds |-> p]
  /\ FeedInit
  /\ ExploreInit
  /\ AccountInit
  /\ StatsInit
  /\ ViewInit

NextDates ==
  \E timestamp \in Timestamps, age \in Ages : RenderPostCard(timestamp, age)

SpecDates == InitDates /\ [][NextDates]_vars

(* --------------------- edits while paging the feed -------------------- *)
\* One more post than a page holds, stamped in the order of the ids.
InitFeedEdits ==
  /\ StoreInit(Min(MaxPosts, PageSize + 1))
  /\ updatedAt = [p \in PostIds |-> p]
  /\ FeedInit
  /\ ExploreInit
  /\ AccountInit
  /\ StatsInit
  /\ ViewInit

NextFeedEdits ==
  \/ FetchFirstPage
  \/ FetchNextPage
  \/ \E postId \in posts : EditPost(postId)

SpecFeedEdits == InitFeedEdits /\ [][NextFeedEdits]_vars

(* ----------------------------- PostStats ------------------------------ *)
\* PostStats mounted for the one post of the backend, whose likes are any
\* list; the likes state starts as the likes of the post.
InitStats ==
  /\ StoreInit(1)
  /\ updatedAt = [p \in PostIds |-> p]
  /\ FeedInit
  /\ ExploreInit
  /\ AccountInit
  /\ shownPost \in posts
  /\ likesOf \in LikeLists
  /\ likes = likesOf
  /\ isSaved = FALSE
  /\ pendingLikes = <<>>
  /\ savePending = NoRequest
  /\ lastToggle = NoToggle
  /\ otherClient = [likes |-> likesOf, pending |-> <<>>]
  /\ ViewInit

NextStats ==
  \/ ToggleLike
  \/ \E i \in 1..MaxPendingLikes, b \in DocumentAnswers : LikeSettles(i, b)
  \/ ToggleSave
  \/ \E b \in DocumentAnswers : SaveSettles(b)
  \/ \E b \in DocumentAnswers : UnsaveSettles(b)
  \/ Refetch

SpecStats == InitStats /\ [][NextStats]_vars

(* ------------------------ likes of two sessions ----------------------- *)
\* The backend answers every call with success.
AllOk ==
  [upload |-> TRUE, preview |-> TRUE, document |-> "ok", deleteFile |-> TRUE]

\* Two sessions like and unlike the post; every request succeeds.
NextLikes ==
  \/ ToggleLike
  \/ OtherUserTogglesLike
  \/ \E i \in 1..MaxPendingLikes : LikeSettles(i, AllOk)
  \/ OtherLikeSettles(AllOk)
  \/ Refetch

SpecLikes == InitStats /\ [][NextLikes]_vars

(* ------------------- saving while every call succeeds ----------------- *)
\* The save icon is clicked at will; every save and unsave request
\* succeeds. A request in flight settles and invalidated queries are
\* fetched again.
NextSaveSettles ==
  \/ ToggleSave
  \/ SaveSettles(AllOk)
  \/ UnsaveSettles(AllOk)
  \/ Refetch

SpecSaveSettles ==
  /\ InitStats
  /\ [][NextSaveSettles]_vars
  /\ WF_vars(SaveSettles(AllOk))
  /\ WF_vars(UnsaveSettles(AllOk))
  /\ WF_vars(Refetch)

(* ------------------------------ claims -------------------------------- *)
Ceil(n, d) == (n + d - 1) \div d

FeedDone == pages # <<>> /\ ~hasNextPage

NonEmptyPages == {i \in 1..Len(pages) : Len(pages[i]) > 0}

C2_NextPageParam ==
  pages # <<>> =>
    /\ (~hasNextPage) <=> (Len(LastOf(pages)) = 0)
    /\ (nextCursor = NoCursor) <=> (Len(LastOf(pages)) = 0)
    /\ Len(LastOf(pages)) > 0 =>
         nextCursor = LastOf(pages)[Len(LastOf(pages))]

C2_Witness ==
  /\ pages # <<>>
  /\ Len(LastOf(pages)) \in 1..(PageSize - 1)
  /\ hasNextPage
  /\ nextCursor = LastOf(LastOf(pages))

\* A step in which searchPosts is called.
SearchCallStep ==
  /\ searchFetching' # searchFetching
  /\ searchFetching \subseteq searchFetching'

\* A step in which the feed is asked for a page after the first.
NextPageCallStep ==
  /\ Len(feedLog') > Len(feedLog)
  /\ LastOf(feedLog') # NoCursor

C9_SearchOnlyNonEmpty ==
  /\ []("" \notin searchCalled /\ "" \notin searchFetching)
  /\ [][SearchCallStep =>
          /\ debouncedSearch' # ""
          /\ lastSearchTerm' = debouncedSearch']_vars

\* The debounced value is back to empty after a search, with no call for it.
C9_Witness ==
  /\ debouncedSearch = ""
  /\ ~timerArmed
  /\ searchCalled # {}
  /\ callsSinceChange = 0

(* ----------------------- claims: post mutations ----------------------- *)
\* The backend answered every call of the latest mutation with success.
BackendSucceeded ==
  LET b == lastOp.answers[1] IN
    /\ lastOp.calls # <<>>
    /\ b.document = "ok"
    /\ "createFile" \in Elems(lastOp.calls) => (b.upload /\ b.preview)
    /\ lastOp.op = "deletePost" => b.deleteFile

\* The mounted queries the latest mutation's invalidateQueries calls match.
Staled ==
  {k \in QueriesInUse : \E f \in lastOp.invalidated : KeyMatches(f, k)}

\* The mounted queries whose data the latest mutation changes: the post
\* lists and the entry of the post for a post mutation or a like, the
\* current user's posts for a new post, the current user for a like, a save
\* or an unsave.
AffectedQueries ==
  CASE lastOp.op = "createPost" ->
         {<<GET_RECENT_POSTS>>, <<GET_INFINITE_POSTS>>,
          <<GET_USER_POSTS, CurrentUserId>>}
    [] lastOp.op \in {"updatePost", "deletePost"} ->
         {<<GET_RECENT_POSTS>>, <<GET_INFINITE_POSTS>>,
          <<GET_POST_BY_ID, lastOp.post>>}
    [] lastOp.op = "likePost" ->
         {<<GET_RECENT_POSTS>>, <<GET_INFINITE_POSTS>>,
          <<GET_POST_BY_ID, lastOp.post>>, <<GET_CURRENT_USER>>}
    [] lastOp.op \in {"savePost", "deleteSavedPost"} ->
         {<<GET_CURRENT_USER>>}
    [] OTHER -> {}

\* C3: a createPost, or an updatePost with a new file, that uploaded its
\* file and then failed has deleted the upload from storage when it reports
\* the failure (the file deletion itself being available).
C3_UploadCleanedUp ==
  ( /\ lastOp.op \in {"createPost", "updatePost"}
    /\ lastOp.uploaded # NoFile
    /\ lastOp.threw
    /\ lastOp.answers[1].deleteFile )
  => lastOp.uploaded \notin storage

\* C4: a mutation hook invalidates cache keys only when the backend
\* operation behind it succeeded, a deletePost whose document or file
\* deletion failed included.
C4_InvalidateOnlyOnSuccess ==
  lastOp.invalidated # {} => BackendSucceeded

\* C5: after a successful mutation no cached query whose data it changes
\* is still fresh.
C5_AffectedInvalidated ==
  (lastOp.op # "none" /\ BackendSucceeded)
  => AffectedQueries \cap freshKeys = {}

\* C6: a successful like of post P marks stale exactly the entry of P, the
\* recent posts, the list of useGetPosts and the current user.
C6_LikeInvalidates ==
  (lastOp.op = "likePost" /\ ~lastOp.threw)
  => Staled = {<<GET_POST_BY_ID, lastOp.post>>, <<GET_RECENT_POSTS>>,
               <<GET_INFINITE_POSTS>>, <<GET_CURRENT_USER>>}

\* A step of useDeletePost, and one that passes both ids.
DeletePostStep == lastOp'.op = "deletePost" /\ lastOp' # lastOp
BothIdsGiven(m) == m.post # NoPost /\ m.image # NoFile

\* C10: with both ids given deletePost calls deleteDocument first and
\* deleteFile only after the document is deleted; a failed document
\* deletion leaves the posts and the storage as they were; it never throws,
\* and its status is "Ok" exactly when both deletions succeeded, "Error"
\* otherwise.
C10_DeleteDocumentThenFile ==
  /\ []((lastOp.op = "deletePost" /\ BothIdsGiven(lastOp)) =>
          LET b == lastOp.answers[1] IN
            /\ ~lastOp.threw
            /\ lastOp.status \in {"Ok", "Error"}
            /\ lastOp.status = "Ok" <=> (b.document = "ok" /\ b.deleteFile)
            /\ lastOp.calls # <<>> /\ lastOp.calls[1] = "deleteDocument"
            /\ "deleteFile" \in Elems(lastOp.calls) <=> b.document = "ok"
            /\ b.document = "ok" => lastOp.post \notin posts
            /\ lastOp.status = "Ok" => lastOp.image \notin storage)
  /\ [][(DeletePostStep /\ BothIdsGiven(lastOp')
             /\ lastOp'.answers[1].document # "ok")
          => (posts' = posts /\ storage' = storage)]_vars
  /\ [][(DeletePostStep /\ BothIdsGiven(lastOp')
             /\ lastOp'.answers[1].document = "ok")
          => /\ posts' = posts \ {lastOp'.post}
             /\ storage' = IF lastOp'.answers[1].deleteFile
                           THEN storage \ {lastOp'.image} ELSE storage]_vars

\* The document of a post was deleted and the deletion of its file failed.
C10_Witness ==
  /\ lastOp.op = "deletePost"
  /\ BothIdsGiven(lastOp)
  /\ lastOp.calls = <<"deleteDocument", "deleteFile">>
  /\ lastOp.status = "Error"
  /\ lastOp.post \notin posts
  /\ lastOp.image \in storage

\* C11: deletePost with a missing postId or imageId returns status "Error"
\* and makes no backend call: no document and no file is deleted.
C11_MissingIdsAbort ==
  /\ []((lastOp.op = "deletePost" /\ ~BothIdsGiven(lastOp)) =>
          /\ lastOp.status = "Error"
          /\ ~lastOp.threw
          /\ lastOp.calls = <<>>)
  /\ [][(DeletePostStep /\ ~BothIdsGiven(lastOp'))
          => (posts' = posts /\ storage' = storage)]_vars

\* deletePost ran for an existing post whose imageId was missing, every
\* backend call being available.
C11_Witness ==
  /\ lastOp.op = "deletePost"
  /\ lastOp.post \in posts
  /\ lastOp.image = NoFile
  /\ lastOp.answers[1].document = "ok"
  /\ lastOp.status = "Error"

\* What the caller of deletePost gets back.
ResultOf(r) == [status |-> r.status, message |-> r.message]

\* C12: when the document of a post is deleted and the file deletion
\* throws, deletePost reports the failure (status "Error" with the message
\* of the file deletion), and that result differs from every result it
\* returns when the document deletion failed.
C12_FileFailureSurfaced ==
  /\ (lastOp.op = "deletePost" /\ BothIdsGiven(lastOp)
        /\ lastOp.answers[1].document = "ok" /\ ~lastOp.answers[1].deleteFile)
     => /\ lastOp.status = "Error"
        /\ lastOp.message = FileNotDeletedMessage
  /\ \A p \in posts : \A b1, b2 \in DeletionAnswers :
       (b1.document = "ok" /\ ~b1.deleteFile /\ b2.document # "ok")
       => /\ ResultOf(deletePost(p, imageOf[p], b1)).status = "Error"
          /\ ResultOf(deletePost(p, imageOf[p], b1))
               # ResultOf(deletePost(p, imageOf[p], b2))

\* A deletion whose document call succeeded and whose file call threw
\* returned the message of the file deletion, with another post left.
C12_Witness ==
  /\ lastOp.op = "deletePost"
  /\ lastOp.answers[1].document = "ok"
  /\ ~lastOp.answers[1].deleteFile
  /\ lastOp.message = FileNotDeletedMessage
  /\ posts # {}

\* C13: searchPosts throws whenever the backend search fails or returns no
\* matching post, and returns its posts only when at least one matches.
C13_SearchThrowsOnNoMatch ==
  searchResult # NoSearchResult =>
    LET listing == searchResult.listing[1] IN
      /\ searchResult.threw
           <=> (listing.outcome # "ok" \/ listing.documents = {})
      /\ ~searchResult.threw
           => (searchResult.documents = listing.documents
                 /\ searchResult.documents # {})

\* A search that the backend answered with an empty list has thrown.
C13_Witness ==
  /\ searchResult # NoSearchResult
  /\ searchResult.listing[1].outcome = "ok"
  /\ searchResult.listing[1].documents = {}
  /\ searchResult.threw

\* The form has been submitted.
Submitted == signup.calls # <<>>

\* The latest sign-up met a failure of account creation or of the saving of
\* the user document.
SignupFailed ==
  LET b == signup.answers[1] IN
    b.account # "ok" \/ ~b.avatar \/ b.document # "ok"

ToggleLikeStep == lastToggle' # lastToggle /\ lastToggle'.kind = "like"
LikeSettleStep == Len(pendingLikes') < Len(pendingLikes)

\* C15: toggleLike sets the likes state to the new array while its likePost
\* request is still unresolved, and no settling of a request, failed or
\* not, changes the likes state: it changes in toggleLike only.
C15_OptimisticLikesKept ==
  /\ [][ToggleLikeStep =>
          /\ likes' = toggleLikes(likes, CurrentUserId)
          /\ likes' # likes
          /\ pendingLikes' = Append(pendingLikes, likes')
          /\ likesOf' = likesOf]_vars
  /\ [][LikeSettleStep => likes' = likes]_vars
  /\ [][likes' # likes => ToggleLikeStep]_vars
  /\ []((lastOp.op = "likePost" /\ lastOp.threw /\ pendingLikes = <<>>
           /\ lastToggle.kind = "like")
        => likes = lastToggle.after)

\* A likePost request failed and the likes state still holds the toggled
\* array, which the backend does not.
C15_Witness ==
  /\ lastOp.op = "likePost"
  /\ lastOp.threw
  /\ pendingLikes = <<>>
  /\ lastToggle.kind = "like"
  /\ likes = lastToggle.after
  /\ likes # likesOf

\* C16: every toggleSave made with the post and the current user loaded
\* issues exactly one backend call: deleteSavedPost when the post was shown
\* as saved, savePost when it was not.
C16_ToggleSaveOneCall ==
  lastToggle.kind = "save"
  => lastToggle.calls = IF lastToggle.wasSaved THEN <<"deleteSavedPost">>
                        ELSE <<"savePost">>

\* The list without every occurrence of the user, computed element by
\* element.
RECURSIVE RemoveAll(_, _)
RemoveAll(list, userId) ==
  IF list = <<>> THEN <<>>
  ELSE IF Head(list) = userId THEN RemoveAll(Tail(list), userId)
  ELSE <<Head(list)>> \o RemoveAll(Tail(list), userId)

\* C17: the like toggle for user u appends u to a list that does not hold
\* u and removes every occurrence of u from a list that holds it; two
\* toggles from a list without u give the list back.
C17_LikeToggle ==
  /\ \A list \in LikeLists : \A u \in Users :
       /\ ~Includes(list, u) =>
            /\ toggleLikes(list, u) = Append(list, u)
            /\ toggleLikes(toggleLikes(list, u), u) = list
       /\ Includes(list, u) => toggleLikes(list, u) = RemoveAll(list, u)
  /\ toggleLikes(<<OtherUserId>>, CurrentUserId)
       = <<OtherUserId, CurrentUserId>>
  /\ lastToggle.kind = "like" =>
       lastToggle.after =
         IF Includes(lastToggle.before, CurrentUserId)
         THEN RemoveAll(lastToggle.before, CurrentUserId)
         ELSE Append(lastToggle.before, CurrentUserId)

\* A toggle removed two occurrences of the user at once.
C17_Witness ==
  /\ lastToggle.kind = "like"
  /\ Len(lastToggle.before) = Len(lastToggle.after) + 2
  /\ likes = lastToggle.after

(* ---------------------- claims: saved records ------------------------- *)
\* C18: every record of the saves collection references a post that
\* exists: deleting a post leaves no saved record pointing at it.
C18_SavedRecordsReferencePosts ==
  \A record \in saves.records : record.post \in posts

(* ------------------- claims: edits while paging ----------------------- *)
\* The posts a page returned that an earlier page had returned already.
Resurfaced ==
  {p \in posts : \E i, j \in 1..Len(pages) :
     i < j /\ p \in Elems(pages[i]) /\ p \in Elems(pages[j])}

\* The posts the pages fetched so far returned.
Returned == UNION {Elems(pages[i]) : i \in 1..Len(pages)}

\* C19: cursor pagination over the $updatedAt-descending order is not
\* stable under edits of posts already returned: a later page returns posts
\* of earlier pages once the post a page request uses as cursor was edited,
\* and only then.
C19_ResurfaceAfterCursorEdit ==
  /\ [](Resurfaced # {}
         => \E i \in 1..Len(pageParams) : pageParams[i] \in Edited)
  /\ [][(/\ Len(pages') = Len(pages) + 1
          /\ pages # <<>>
          /\ nextCursor \in Edited
          /\ updatedAt[nextCursor] = Newest
          /\ Returned \ {nextCursor} # {})
         => Elems(pages'[Len(pages')]) \cap Returned # {}]_vars

\* A post returned by the first page was edited before the second page was
\* requested with it as cursor, and the second page returned posts of the
\* first page again.
C19_Witness ==
  /\ Len(pages) >= 2
  /\ pageParams[2] \in Edited
  /\ \E p \in Elems(pages[1]) : p \in Elems(pages[2])
  /\ Resurfaced # {}

(* ------------------------- claims: usernames -------------------------- *)
\* Letters, digits, ".", "_" and "-".
Retained(c) ==
  \/ c \in 97..122
  \/ c \in 65..90
  \/ c \in 48..57
  \/ c \in {46, 95, 45}

\* C20: sanitizeUsername returns the letters, digits, dots, underscores and
\* hyphens of its input, in order and lowercased, and nothing else.
C20_SanitizeRetainsAllowed ==
  Submitted =>
    LET kept == SelectSeq(signup.username, Retained)
    IN signup.userId[1] = [i \in 1..Len(kept) |-> toLowerCase(kept[i])]

(* --------------------------- claims: PostForm ------------------------- *)
\* The characters of s that are not spaces, in order.
RECURSIVE Unspaced(_)
Unspaced(s) ==
  IF s = <<>> THEN <<>>
  ELSE IF Head(s) = 32 THEN Unspaced(Tail(s))
  ELSE <<Head(s)>> \o Unspaced(Tail(s))

\* The tags joined again by commas.
RECURSIVE Joined(_)
Joined(tags) ==
  IF Len(tags) = 1 THEN tags[1]
  ELSE tags[1] \o <<44>> \o Joined(Tail(tags))

\* C21: processTags(undefined) is the empty list; for a string, the tags
\* are the comma-separated segments of the string without its spaces, in
\* order: there is one more tag than the string has commas, the tags joined
\* by commas give the string without its spaces, and no tag holds a comma
\* or a space ("a, b,c " gives "a", "b", "c"). The tags the document call
\* of a submitted form carries are those of its tags field.
C21_ProcessTags ==
  /\ processTags(Undefined) = <<>>
  /\ processTags(String(<<97, 44, 32, 98, 44, 99, 32>>))
       = <<(<<97>>), (<<98>>), (<<99>>)>>
  /\ sent.documentSent =>
       LET s == form.values.tags
           tags == sent.tags
       IN /\ tags = processTags(String(s))
          /\ Len(tags) = 1 + Cardinality({i \in 1..Len(s) : s[i] = 44})
          /\ Joined(tags) = Unspaced(s)
          /\ \A i \in 1..Len(tags) : \A j \in 1..Len(tags[i]) :
               tags[i][j] \notin {44, 32}

\* The form with the tags "a, " was sent: the tags are "a" and "".
C21_Witness ==
  /\ sent.documentSent
  /\ form.values.tags = <<97, 44, 32>>
  /\ sent.tags = <<(<<97>>), (<<>>)>>

\* The values of the form break a bound of PostValidation.
FormOutOfBounds ==
  \/ Len(form.values.caption) < 5
  \/ Len(form.values.caption) > 2200
  \/ Len(form.values.location) < 2
  \/ Len(form.values.location) > 100

\* C23: createPost or updatePost is called only with a caption of 5 to
\* 2200 characters and a location of 2 to 100 characters; a form that
\* breaks a bound makes no backend call when submitted: no mutation runs,
\* no file is uploaded and no document is created or changed.
C23_FormBoundsEnforced ==
  /\ sent.called # "none" =>
       /\ Len(sent.caption) \in 5..2200
       /\ Len(sent.location) \in 2..100
       /\ sent.caption = form.values.caption
       /\ sent.location = form.values.location
  /\ lastOp # NoMutation => ~FormOutOfBounds
  /\ FormOutOfBounds =>
       /\ sent.called = "none"
       /\ sent.calls = <<>>
       /\ lastOp = NoMutation
       /\ uploads = 1 /\ created = 1
       /\ storage = {1} /\ posts = {1} /\ imageOf[1] = 1

\* A form with a caption of 2201 characters was submitted and rejected.
C23_Witness ==
  /\ Len(form.values.caption) = 2201
  /\ Len(form.values.location) = 2
  /\ sent.errors = {"caption"}
  /\ sent.called = "none"

(* --------------------------- claims: PostCard ------------------------- *)
\* C22: for a valid timestamp of age d the text is "Just now" under 60
\* seconds, future timestamps included; "k minute(s) ago" from one minute
\* to under an hour, "k hour(s) ago" from one hour to under a day and
\* "k day(s) ago" from one day to under 30 days, k being the number of
\* whole units in d; the date of the timestamp from 30 days on; the unit
\* is plural exactly when k > 1, so 90 minutes give "1 hour ago"; an
\* unparseable timestamp gives the empty text. Ages are in tenths of a
\* second: 600 is a minute, 36000 an hour, 864000 a day.
C22_RelativeDate ==
  dateShown.rendered =>
    LET d == dateShown.now - dateShown.timestamp.time
        t == dateShown.text
        Whole(k, unitMs) == k * unitMs <= d /\ d < (k + 1) * unitMs
    IN IF ~dateShown.timestamp.valid THEN t.kind = "empty"
       ELSE /\ d < 600 <=> t.kind = "Just now"
            /\ (600 <= d /\ d < 36000)
                 <=> (t.kind = "ago" /\ t.unit = "minute")
            /\ (36000 <= d /\ d < 864000)
                 <=> (t.kind = "ago" /\ t.unit = "hour")
            /\ (864000 <= d /\ d < 30 * 864000)
                 <=> (t.kind = "ago" /\ t.unit = "day")
            /\ d >= 30 * 864000
                 <=> (t.kind = "date" /\ t.value = dateShown.timestamp.time)
            /\ t.kind = "ago" =>
                 /\ t.unit = "minute" => Whole(t.value, 600)
                 /\ t.unit = "hour" => Whole(t.value, 36000)
                 /\ t.unit = "day" => Whole(t.value, 864000)
                 /\ t.plural <=> t.value > 1
            /\ d = 90 * 600 =>
                 (t.value = 1 /\ t.unit = "hour" /\ ~t.plural)

\* A post 90 minutes old is shown as "1 hour ago".
C22_Witness ==
  /\ dateShown.rendered
  /\ dateShown.timestamp.valid
  /\ dateShown.now - dateShown.timestamp.time = 54000
  /\ dateShown.text =
       [kind |-> "ago", value |-> 1, unit |-> "hour", plural |-> FALSE]

(* --------------------- claims: likes of two sessions ------------------ *)
\* A step in which a likePost request of either session is applied.
OwnLikeApplied == Len(pendingLikes') < Len(pendingLikes)
OtherLikeApplied == otherClient.pending # <<>> /\ otherClient'.pending = <<>>

\* C24: a likePost that succeeds replaces the stored likes of the post by
\* the array of the request, whatever the stored list held: with two
\* requests in flight the stored likes are the array of the request applied
\* last. No request changes the likes either session displays.
C24_LastLikeWriteWins ==
  /\ [][OwnLikeApplied =>
          \E i \in 1..Len(pendingLikes) :
            /\ likesOf' = pendingLikes[i]
            /\ Len(pendingLikes') = Len(pendingLikes) - 1]_vars
  /\ [][OtherLikeApplied => likesOf' = otherClient.pending[1]]_vars
  /\ [][(OwnLikeApplied \/ OtherLikeApplied) =>
          (likes' = likes /\ otherClient'.likes = otherClient.likes)]_vars
  /\ [][likesOf' # likesOf => (OwnLikeApplied \/ OtherLikeApplied)]_vars

\* Two users liked the post from the same empty list and both requests
\* succeeded: the stored list holds the other user only, while this user is
\* shown the post as liked.
C24_Witness ==
  /\ pendingLikes = <<>>
  /\ otherClient = [likes |-> <<OtherUserId>>, pending |-> <<>>]
  /\ likes = <<CurrentUserId>>
  /\ likesOf = <<OtherUserId>>
  /\ lastToggle.before = <<>>

(* ----------------------- claims: saving a post ------------------------ *)
\* The records of the saves collection for this user and the shown post.
OwnSavedRecords ==
  {record \in saves.records :
     record.user = CurrentUserId /\ record.post = shownPost}

\* C25: whatever the order of toggleSave clicks, of completions of the
\* save and unsave requests and of refetches of the current user, the
\* backend holds at most one saved record of the user for the post.
C25_AtMostOneSavedRecord == Cardinality(OwnSavedRecords) <= 1

\* A step of toggleSave.
ToggleSaveStep == isSaved' # isSaved /\ freshKeys' = freshKeys

\* C28: when the clicks on the save icon come to an end and every request
\* and refetch succeeds, isSaved ends up equal to whether the backend holds
\* a saved record of the user for the post, and stays so.
C28_IsSavedConverges ==
  (<>[][~ToggleSaveStep]_vars) => <>[](isSaved = (OwnSavedRecords # {}))

\* Clicks between a save and the refetch after it left two saved records;
\* everything has settled and the post is shown as saved.
C28_Witness ==
  /\ Cardinality(OwnSavedRecords) = 2
  /\ savePending = NoRequest
  /\ freshKeys = QueriesInUse
  /\ currentUser = getCurrentUser
  /\ isSaved

(* ----------------- claims: accounts without a user document ----------- *)
\* The accounts of the auth service that have no user document.
AccountsWithoutUser == accounts \ users

\* The latest sign-up created the account and then failed before the user
\* document was stored.
FailedAfterAccount ==
  LET b == signup.answers[1] IN
    b.account = "ok" /\ (~b.avatar \/ b.document # "ok")

OrphanFiles == storage \ {imageOf[p] : p \in posts}
SharedFiles ==
  {f \in storage : Cardinality({p \in posts : imageOf[p] = f}) > 1}

\* A step made of a createPost, updatePost or deletePost that succeeded.
SuccessfulPostStep ==
  /\ lastOp'.op \in {"createPost", "updatePost", "deletePost"}
  /\ ~lastOp'.threw
  /\ lastOp'.status # "Error"

\* C26: a successful createPost, updatePost or deletePost made while every
\* file in storage is the image of exactly one post leaves it so; an
\* updatePost that uploads a new file leaves no file in storage that the
\* post no longer references.
C26_NoOrphanFiles ==
  [][(SuccessfulPostStep /\ OrphanFiles = {} /\ SharedFiles = {})
       => (OrphanFiles' = {} /\ SharedFiles' = {})]_vars

RecentFailure ==
  [threw |-> TRUE, message |-> FailedToFetchRecentPosts, documents |-> <<>>]

C30_EmptyIsFailure ==
  /\ getRecentPosts("throws") = RecentFailure
  /\ posts = {} => \A b \in ListAnswers : getRecentPosts(b) = RecentFailure
  /\ posts # {} => ~getRecentPosts("ok").threw
  /\ recentQuery.status = "success" =>
       /\ posts # {}
       /\ recentQuery.documents # <<>>
  /\ (posts = {} /\ recentQuery.answers # <<>>) =>
       /\ recentQuery.documents = <<>>
       /\ recentQuery.failureCount = Len(recentQuery.answers)
       /\ recentQuery.fetching => recentQuery.failureCount <= RetryCount
       /\ ~recentQuery.fetching =>
            /\ recentQuery.status = "error"
            /\ recentQuery.error = FailedToFetchRecentPosts
            /\ recentQuery.failureCount = RetryCount + 1
            /\ Home = [loader |-> FALSE, cards |-> <<>>]
  /\ (recentQuery.status = "error" /\ ~recentQuery.fetching) =>
       /\ recentQuery.error = FailedToFetchRecentPosts
       /\ \A i \in 1..Len(recentQuery.answers) :
            recentQuery.answers[i] = "throws" \/ posts = {}

C30_Witness ==
  /\ posts = {}
  /\ recentQuery.status = "error"
  /\ recentQuery.error = FailedToFetchRecentPosts
  /\ ~recentQuery.fetching
  /\ \A i \in 1..Len(recentQuery.answers) : recentQuery.answers[i] = "ok"
  /\ Len(recentQuery.answers) = RetryCount + 1

====
